---- MODULE Spec2Model ----
(***************************************************************************)
(* Model of src-tauri/src/msh3js_tauri_lib.rs: run() collects the file     *)
(* arguments of the process (extract_file_args), and, when the list is not *)
(* empty, registers a "frontend-ready" listener whose callback emits       *)
(* "open-file" with the captured list and unwraps the result.              *)
(***************************************************************************)
EXTENDS Naturals, Sequences, FiniteSets

(* ---------------------------------------------------------------- bounds *)
\* arguments after the executable path
MaxArgs == 2
\* "frontend-ready" signals the host delivers in one run
MaxSignals == 2

\* path strings that may appear on the command line
Paths == {"app", "a.msh"}
\* what a stat of a path can find
Kinds == {"missing", "file", "dir", "unreadable"}

VARIABLES
    args,       \* std::env::args(): args[1] is the executable path
    fs,         \* the filesystem: path -> kind, changes under the program
    pc,         \* position of the setup closure
    files,      \* `let files` of the setup closure
    listeners,  \* listeners registered on the app handle
    pending,    \* "frontend-ready" signals delivered, callback not yet run
    emits,      \* every event_handle.emit call: event, payload, result
    panicked,   \* a callback panicked (unwrap of an Err)
    log         \* the order of the events of the run

vars == <<args, fs, pc, files, listeners, pending, emits, panicked, log>>

(* ------------------------------------------------------ extract_file_args *)
\* Path::exists(): the metadata call succeeds (an error counts as absent)
exists(f, p) == f[p] \in {"file", "dir"}

\* Path::is_file(): the metadata call succeeds and names a regular file
is_file(f, p) == f[p] = "file"

\* the filter closure of extract_file_args
keep(f, arg) == exists(f, arg) /\ is_file(f, arg)

\* mutant: the executable path is not skipped
skip_none(a, n) == a
\* .skip(n): the arguments after the first n
skip(a, n) == IF Len(a) <= n THEN <<>> ELSE SubSeq(a, n + 1, Len(a))

RECURSIVE filter(_, _)
\* .filter(..).collect(): the kept arguments, in order
filter(a, f) ==
    IF a = <<>> THEN <<>>
    ELSE IF keep(f, Head(a)) THEN <<Head(a)>> \o filter(Tail(a), f)
         ELSE filter(Tail(a), f)

\* mutant: a directory passes the file test
extract_any_entry(a, f) == SelectSeq(skip(a, 1), LAMBDA arg : exists(f, arg))
\* extract_file_args()
extract_file_args(a, f) == filter(skip(a, 1), f)

(* ------------------------------------------------------------------ state *)
ArgVectors == UNION {[1..n -> Paths] : n \in 1..(MaxArgs + 1)}

Init ==
    /\ args \in ArgVectors
    /\ fs \in [Paths -> Kinds]
    /\ pc = "collect"
    /\ files = <<>>
    /\ listeners = {}
    /\ pending = 0
    /\ emits = <<>>
    /\ panicked = FALSE
    /\ log = <<>>

Count(s, e) == Cardinality({i \in 1..Len(s) : s[i] = e})

\* the first position of e in s, 0 when absent
First(s, e) ==
    IF \E i \in 1..Len(s) : s[i] = e
    THEN CHOOSE i \in 1..Len(s) : s[i] = e /\ \A j \in 1..(i - 1) : s[j] # e
    ELSE 0

\* signals the host delivered in this run
Signals == Count(log, "frontend-ready")

\* signals delivered after the listener was registered
ArmedSignals ==
    Cardinality({i \in 1..Len(log) :
        log[i] = "frontend-ready" /\ First(log, "listen") # 0 /\ i > First(log, "listen")})

\* the payloads of the successful "open-file" emissions
Emitted == SelectSeq(emits, LAMBDA e : e.ok)

(* ---------------------------------------------------------- setup closure *)
\* let files = extract_file_args();
Collect ==
    /\ ~panicked
    /\ pc = "collect"
    /\ files' = extract_file_args(args, fs)
    /\ pc' = "check"
    /\ log' = Append(log, "collected")
    /\ UNCHANGED <<args, fs, listeners, pending, emits, panicked>>

\* mutant: the listener is registered whatever was collected
ArmAlways(fl) == TRUE
\* if !files.is_empty()
ShouldArm(fl) == fl # <<>>

\* mutant: the callback collects again when it runs
PayloadRecollected(l, a, f) == extract_file_args(a, f)
\* &files inside the callback: the list moved into the closure
Payload(l, a, f) == l.files

\* mutant: the list is emitted at registration, no signal awaited
EmitsAtListenEager(e, fl) == Append(e, [event |-> "open-file", payload |-> fl, ok |-> TRUE])
\* emissions made by app_handle.listen itself: none
EmitsAtListen(e, fl) == e

\* mutant: the listener is registered under a misspelt event name
ListenEventTypo == "frontend_ready"
\* the event name given to app_handle.listen
ListenEvent == "frontend-ready"

\* app_handle.listen("frontend-ready", move |_event| { .. })
Listen ==
    /\ ~panicked
    /\ pc = "check"
    /\ ShouldArm(files)
    /\ listeners' = listeners \cup {[event |-> ListenEvent, files |-> files]}
    /\ emits' = EmitsAtListen(emits, files)
    /\ pc' = "return"
    /\ log' = Append(log, "listen")
    /\ UNCHANGED <<args, fs, files, pending, panicked>>

\* files.is_empty(): the if body is skipped
SkipListen ==
    /\ ~panicked
    /\ pc = "check"
    /\ ~ShouldArm(files)
    /\ pc' = "return"
    /\ UNCHANGED <<args, fs, files, listeners, pending, emits, panicked, log>>

\* Ok(())
SetupReturn ==
    /\ ~panicked
    /\ pc = "return"
    /\ pc' = "running"
    /\ UNCHANGED <<args, fs, files, listeners, pending, emits, panicked, log>>

(* ------------------------------------------------------------------- host *)
\* the host delivers "frontend-ready": one callback run is owed per listener
FrontendReady ==
    /\ ~panicked
    /\ Signals < MaxSignals
    /\ pending' = pending + Cardinality({l \in listeners : l.event = "frontend-ready"})
    /\ log' = Append(log, "frontend-ready")
    /\ UNCHANGED <<args, fs, pc, files, listeners, emits, panicked>>

\* the filesystem changes under the program
FsChange ==
    /\ ~panicked
    /\ \E p \in Paths, k \in Kinds :
        /\ fs[p] # k
        /\ fs' = [fs EXCEPT ![p] = k]
    /\ UNCHANGED <<args, pc, files, listeners, pending, emits, panicked, log>>

(* --------------------------------------------------------------- callback *)
\* mutant: the listener removes itself before its first run ends
ListenersOnce(ls, l) == ls \ {l}
\* the listeners after a callback run: listen() keeps the listener
ListenersAfter(ls, l) == ls

\* mutant: the result of emit is dropped
UnwrapIgnored(ok) == FALSE
\* .unwrap(): panics on Err
UnwrapPanics(ok) == ~ok

\* mutant: a run after the first finds the list gone and panics
RunPanicsSecond(e, ok) == e # <<>> \/ UnwrapPanics(ok)
\* whether a callback run panics, given the emissions so far and emit's result
RunPanics(e, ok) == UnwrapPanics(ok)

\* mutant: the event is emitted twice for one signal
emit_twice(e, payload, ok) ==
    e \o << [event |-> "open-file", payload |-> payload, ok |-> ok],
            [event |-> "open-file", payload |-> payload, ok |-> ok] >>
\* event_handle.emit("open-file", &files): one emission, with its result
emit(e, payload, ok) == Append(e, [event |-> "open-file", payload |-> payload, ok |-> ok])

\* the body of the listener: event_handle.emit("open-file", &files).unwrap();
Callback ==
    /\ ~panicked
    /\ pending > 0
    /\ \E l \in listeners, ok \in BOOLEAN :
        /\ l.event = "frontend-ready"
        /\ emits' = emit(emits, Payload(l, args, fs), ok)
        /\ panicked' = RunPanics(emits, ok)
        /\ log' = Append(log, IF ok THEN "open-file" ELSE "emit-failed")
        /\ listeners' = ListenersAfter(listeners, l)
    /\ pending' = pending - 1
    /\ UNCHANGED <<args, fs, pc, files>>

Next ==
    \/ Collect
    \/ Listen
    \/ SkipListen
    \/ SetupReturn
    \/ FrontendReady
    \/ FsChange
    \/ Callback

Spec == Init /\ [][Next]_vars

\* the setup closure runs to its end and the host's event loop runs every
\* callback it owes; nothing makes the frontend send its signal
LiveSpec ==
    /\ Spec
    /\ WF_vars(Collect) /\ WF_vars(Listen) /\ WF_vars(SkipListen) /\ WF_vars(SetupReturn)
    /\ WF_vars(Callback)

(* ----------------------------------------------------------------- claims *)
\* the setup closure has run extract_file_args
Collected == pc # "collect"

\* the step in which extract_file_args runs
CollectStep == pc = "collect" /\ pc' = "check"

\* C1 as stated: "open-file" is emitted at most once in a run, whatever the
\* number of "frontend-ready" signals.
C1_AtMostOnce == Len(Emitted) <= 1

\* C1 amended: "open-file" is emitted at most once per "frontend-ready" signal
\* delivered after the listener was registered; the emissions never outnumber
\* those signals.
C1_AtMostOncePerSignal == Len(Emitted) <= ArmedSignals

\* a second signal produced a second emission
C1_Witness == Len(Emitted) = 2 /\ ArmedSignals = 2

\* C2: when the collected list is empty no listener is registered, no callback
\* run is owed and no emission is made, whatever signals arrive.
C2_EmptyNeverArms ==
    (Collected /\ files = <<>>) => (listeners = {} /\ pending = 0 /\ emits = <<>>)

\* setup ended with an empty list and the host delivered two signals
C2_Witness == pc = "running" /\ files = <<>> /\ Signals >= 2

\* C3: every "open-file" emission comes after a "frontend-ready" signal, which
\* comes after the registration of the listener, which comes after the
\* collection; nothing is emitted while no signal has been delivered.
C3_Ordering ==
    /\ \A i \in 1..Len(log) :
        log[i] = "open-file" =>
            \E a, b, c \in 1..Len(log) :
                /\ a < b /\ b < c /\ c < i
                /\ log[a] = "collected" /\ log[b] = "listen" /\ log[c] = "frontend-ready"
    /\ Len(Emitted) = Count(log, "open-file")
    /\ emits # <<>> => (Collected /\ listeners # {} /\ ArmedSignals > 0)

\* an emission happened, after a signal that itself followed a lost signal
C3_Witness ==
    /\ Count(log, "open-file") = 1
    /\ Signals = 2 /\ ArmedSignals = 1

\* C4: the payload of every emission is the list collected at start-up, even
\* when the filesystem has changed since.
C4_PayloadIsCollected ==
    \A i \in 1..Len(emits) : emits[i].event = "open-file" /\ emits[i].payload = files

\* an emission carried a path that no longer names a regular file
C4_Witness ==
    \E i \in 1..Len(emits) :
        /\ emits[i].ok
        /\ \E k \in 1..Len(emits[i].payload) : ~keep(fs, emits[i].payload[k])

\* the positions after the executable path whose argument is a regular file
FilePositions(a, f) == {i \in 2..Len(a) : f[a[i]] = "file"}

\* s lists the arguments of a at the positions of P, in increasing position
ListsPositions(s, a, P) ==
    /\ Len(s) = Cardinality(P)
    /\ \A i \in P : s[Cardinality({j \in P : j <= i})] = a[i]

\* C5: the collector returns the arguments at positions 1..n that name a
\* regular file when it runs, in their order, duplicates kept; a missing
\* path, a directory and an unreadable entry are left out.
C5_CollectsFiles ==
    [][CollectStep => ListsPositions(files', args, FilePositions(args, fs))]_vars

\* a collection that dropped the first argument after the executable path
\* and kept the second, a different path
C5_Witness ==
    /\ pc = "check"
    /\ Len(args) = 3 /\ args[2] # args[3]
    /\ files = <<args[3]>>

\* C6: the executable path is not collected for being at position 0: it is
\* in the list only as often as it occurs at a later position, and only when
\* it names a regular file there.
C6_ExeSkipped ==
    [][CollectStep =>
        /\ Len(files') <= Len(args) - 1
        /\ Count(files', args[1]) <= Count(Tail(args), args[1])
        /\ (Count(files', args[1]) > 0 => is_file(fs, args[1]))]_vars

\* the executable path is a regular file, given again as the only argument,
\* and collected once
C6_Witness ==
    /\ pc = "check"
    /\ Len(args) = 2 /\ args[1] = args[2]
    /\ files = <<args[1]>>

\* C7: a failed emission is fatal: the callback panics, the failed emission is
\* the last one made (no retry), and no run goes on after it.
C7_FailureIsFatal ==
    \A i \in 1..Len(emits) : ~emits[i].ok => (panicked /\ i = Len(emits))

\* an emission failed while another signal was still waiting for its callback
C7_Witness == panicked /\ pending > 0 /\ ~emits[Len(emits)].ok

\* C8: repeated ready signals alone do not crash: a panic happens only when an
\* emission failed.
C8_RepeatDoesNotCrash ==
    panicked => \E i \in 1..Len(emits) : ~emits[i].ok

\* one file collected, two signals answered by two emissions, no panic
C8_Witness == Len(files) = 1 /\ Len(Emitted) = 2 /\ ~panicked

\* the listener is registered and no signal has reached it
Armed == listeners # {} /\ ArmedSignals = 0 /\ emits = <<>> /\ ~panicked

\* C9: with a non-empty list, setup registers the listener and returns
\* without a signal; every signal delivered after that is eventually answered
\* by an emission (or by the panic of a failed one); while no signal arrives
\* the relay stays armed.
C9_RelayLiveness ==
    /\ (pc = "check" /\ files # <<>>) ~> ((pc = "running" /\ listeners # {}) \/ panicked)
    /\ \A n \in 1..MaxSignals :
        (ArmedSignals >= n) ~> (Len(Emitted) >= n \/ panicked)
    /\ [][(Armed /\ Signals' = Signals) => Armed']_vars

\* setup has returned and every signal delivered since arming was answered
C9_Witness ==
    pc = "running" /\ ArmedSignals >= 1 /\ Len(Emitted) = ArmedSignals

\* C10: the listener is never deregistered and its list never changes: every
\* signal delivered since arming has made one emission attempt or still waits
\* for its callback, and all attempts carry the same list.
C10_AttemptPerSignal ==
    /\ [](Len(emits) + pending = ArmedSignals)
    /\ [](\A i, j \in 1..Len(emits) : emits[i].payload = emits[j].payload)
    /\ [][listeners # {} => listeners' = listeners]_vars

\* two signals since arming, two attempts, the listener still registered
C10_Witness == ArmedSignals = 2 /\ Len(emits) = 2 /\ listeners # {}
====
